---- MODULE Spec2Model ----
(***************************************************************************)
(* State-machine model of the EdgeX logging client (logger.go).            *)
(*                                                                         *)
(* One LoggingClient is constructed by NewClient and then used by the two  *)
(* caller goroutines of Callers, which make MaxCalls calls between them,   *)
(* one after the other or overlapping.  Every goroutine that sendLog       *)
(* starts is a further process.  The file system and the transport are    *)
(* the environment: a read-only or writable tree, a collector that may or  *)
(* may not be reached.                                                     *)
(*                                                                         *)
(* The client is passed by value, but StdOutLogger and                     *)
(* FileLogger are pointers, so the two log.Logger objects are shared by    *)
(* every call.  Each log.Logger method (SetPrefix, SetOutput, Println)     *)
(* takes the logger's own mutex, so each is one atomic step; nothing makes *)
(* a sequence of them atomic.                                              *)
(*                                                                         *)
(* Strings that the code takes apart (LogTarget) are sequences of tokens;  *)
(* "" is the empty sequence.  A prefix "INFO: " is <<"INFO", ": ">>.       *)
(***************************************************************************)
EXTENDS Integers, Sequences, FiniteSets, TLC

\* ------------------------------------------------------------------ bounds
\* Calls made on the client in one behaviour.
MaxCalls == 2

\* The goroutines that call the client.
Callers == {"g1", "g2"}

Levels == {"INFO", "DEBUG", "WARN", "ERROR"}
\* The arguments the callers pass: Info("hello"), Debug("hello", "tag1"),
\* Warn("oops", "tag1", "tag2"), Error("oops"), Trace("hello", "tag1").
ArgsOf(method) ==
    CASE method = "INFO" -> {[msg |-> "hello", labels |-> <<>>]}
      [] method = "DEBUG" -> {[msg |-> "hello", labels |-> <<"tag1">>]}
      [] method = "WARN" -> {[msg |-> "oops", labels |-> <<"tag1", "tag2">>]}
      [] method = "ERROR" -> {[msg |-> "oops", labels |-> <<>>]}
      [] method = "TRACE" -> {[msg |-> "hello", labels |-> <<"tag1">>]}
ServiceNames == {"device-svc"}

\* Log targets: "", "app.log", "/tmp/a/app.log", "http://collector/logs", ":collector"
FileTarget == <<"app.log">>
DirTarget == <<"/", "tmp", "/", "a", "/", "app.log">>
UrlTarget == <<"http:", "/", "/", "collector", "/", "logs">>
BadUrlTarget == <<":", "collector">>
Targets == {<<>>, FileTarget, DirTarget, UrlTarget, BadUrlTarget}
\* A file path for the file sink; a URL, or a path taken for one, for the remote sink.
TargetsOf(isRemote) ==
    IF isRemote THEN {<<>>, UrlTarget, BadUrlTarget, FileTarget}
    ELSE {<<>>, FileTarget, DirTarget}

LogFlags == "Ldate|Ltime|Lshortfile"
NoCall == [id |-> 0, caller |-> "none", method |-> "none", msg |-> "", labels |-> <<>>,
           ret |-> "nil", opened |-> FALSE, openFailed |-> FALSE, mkdirFailed |-> FALSE,
           launched |-> FALSE]
\* A line that was in the log file before the client was constructed.
OldLine == [kind |-> "log", prefix |-> <<"OLD", ": ">>, msg |-> "earlier", call |-> 0]

VARIABLES
    OwningServiceName, RemoteEnabled, LogTarget,  \* LoggingClient fields
    StdOutLogger, FileLogger,                     \* the two shared log.Logger objects
    stdout,                                       \* lines written to os.Stdout
    dirs, files, perm,                            \* file system
    handles,                                      \* open *os.File handles
    pc, cur,                                      \* each caller's position and call
    senders, sent,                                \* detached goroutines: pending, finished
    hist, ncalls, overlap, files0                 \* history

vars == <<OwningServiceName, RemoteEnabled, LogTarget, StdOutLogger, FileLogger, stdout,
          dirs, files, perm, handles, pc, cur, senders, sent, hist, ncalls, overlap, files0>>

lcVars == <<OwningServiceName, RemoteEnabled, LogTarget>>
fsVars == <<dirs, files, perm, handles>>
netVars == <<senders, sent>>

\* ----------------------------------------------------------- pure helpers

\* prefix + ": "
LevelPrefix(level) == <<level, ": ">>

\* filepath.Split: everything up to and including the last separator.
RECURSIVE LastSep(_, _)
LastSep(path, i) ==
    IF i = 0 THEN 0
    ELSE IF path[i] = "/" THEN i
    ELSE LastSep(path, i - 1)

SplitDir(path) == SubSeq(path, 1, LastSep(path, Len(path)))

\* strings.TrimRight(prefix, "/")
RECURSIVE TrimRight(_)
TrimRight(s) ==
    IF Len(s) > 0 /\ s[Len(s)] = "/" THEN TrimRight(SubSeq(s, 1, Len(s) - 1))
    ELSE s

LogDir(path) == TrimRight(SplitDir(path))

\* os.MkdirAll creates the directory and every missing ancestor.
Ancestors(dir) ==
    {TrimRight(SubSeq(dir, 1, i)) : i \in 1..Len(dir)} \ {<<>>}

\* log.Logger.SetPrefix / SetOutput
SetPrefix(logger, prefix) == [logger EXCEPT !.prefix = prefix]
SetOutput(logger, w) == [logger EXCEPT !.out = w]

\* os.OpenFile(path, O_APPEND|O_CREATE|O_WRONLY, 0644) succeeds
OpenOK(path) ==
    IF files[path].exists THEN perm = "rw"
    ELSE perm = "rw" /\ (LogDir(path) = <<>> \/ LogDir(path) \in dirs)

\* Mutant: the file is opened with O_TRUNC.
OpenedFile_trunc(f) == [exists |-> TRUE, lines |-> <<>>]

\* The file content right after a successful open: O_CREATE makes an empty
\* file, O_APPEND keeps what is there.
OpenedFile(f) == [exists |-> TRUE, lines |-> f.lines]

\* Mutant: the labels are stored back to front.
buildLogEntry_reversed(logLevel, msg, labels) ==
    [Level |-> logLevel, Message |-> msg,
     Labels |-> [i \in DOMAIN labels |-> labels[Len(labels) + 1 - i]],
     OriginService |-> OwningServiceName]

buildLogEntry(logLevel, msg, labels) ==
    [Level |-> logLevel, Message |-> msg, Labels |-> labels,
     OriginService |-> OwningServiceName]

\* json.Marshal(logEntry)
Marshal(logEntry) ==
    [ok |-> TRUE,
     body |-> [level |-> logEntry.Level, message |-> logEntry.Message,
               labels |-> logEntry.Labels, originService |-> logEntry.OriginService]]

\* http.NewRequest parses the URL: a string that starts with ':' has no
\* protocol scheme and is refused.
NewRequestOK(target) == ~(Len(target) > 0 /\ target[1] = ":")

\* client.Do can only reach a collector over a scheme the transport supports.
SchemeSupported(url) == Len(url) > 0 /\ url[1] = "http:"

\* ------------------------------------------------------------------- Init

Paths == Targets \ {<<>>}

\* NewClient, and the file system it finds.
Init ==
    /\ OwningServiceName \in ServiceNames
    /\ RemoteEnabled \in BOOLEAN
    /\ LogTarget \in TargetsOf(RemoteEnabled)
    /\ StdOutLogger = [out |-> "os.Stdout", prefix |-> <<>>, flags |-> LogFlags]
    /\ FileLogger = [out |-> 0, prefix |-> <<>>, flags |-> LogFlags]
    /\ stdout = <<>>
    /\ perm \in (IF RemoteEnabled THEN {"rw"} ELSE {"rw", "ro"})
    /\ dirs \in (IF RemoteEnabled THEN {{}} ELSE {{}, Ancestors(LogDir(LogTarget))})
    /\ \E present \in BOOLEAN :
          /\ present => /\ LogTarget # <<>>
                        /\ ~RemoteEnabled
                        /\ LogDir(LogTarget) = <<>> \/ LogDir(LogTarget) \in dirs
          /\ files = [p \in Paths |->
                        IF present /\ p = LogTarget
                        THEN [exists |-> TRUE, lines |-> <<OldLine>>]
                        ELSE [exists |-> FALSE, lines |-> <<>>]]
    /\ files0 = files
    /\ handles = {}
    /\ pc = [t \in Callers |-> "idle"]
    /\ cur = [t \in Callers |-> NoCall]
    /\ senders = <<>>
    /\ sent = <<>>
    /\ hist = <<>>
    /\ ncalls = 0
    /\ overlap = FALSE

\* ---------------------------------------------------------------- actions

\* The call of caller t returns ret.
Return(t, call, ret) ==
    /\ hist' = Append(hist, [call EXCEPT !.ret = ret])
    /\ pc' = [pc EXCEPT ![t] = "idle"]
    /\ cur' = [cur EXCEPT ![t] = NoCall]

Println(lines, logger, msg, id) ==
    Append(lines, [kind |-> "log", prefix |-> logger.prefix, msg |-> msg, call |-> id])

Diag(lines, text, id) ==
    Append(lines, [kind |-> "diag", prefix |-> <<>>, msg |-> text, call |-> id])

\* Mutant: the call also resets the standard-output writer's flags.
LevelCall_flags(t, level, msg, labels) ==
    /\ pc[t] = "idle"
    /\ ncalls < MaxCalls
    /\ ncalls' = ncalls + 1
    /\ overlap' = (overlap \/ \E u \in Callers \ {t} : pc[u] # "idle")
    /\ StdOutLogger' = [SetPrefix(StdOutLogger, LevelPrefix(level)) EXCEPT !.flags = "none"]
    /\ cur' = [cur EXCEPT ![t] = [NoCall EXCEPT !.id = ncalls + 1, !.caller = t,
                                      !.method = level, !.msg = msg, !.labels = labels]]
    /\ pc' = [pc EXCEPT ![t] = "println"]
    /\ UNCHANGED <<lcVars, FileLogger, stdout, fsVars, netVars, hist, files0>>

\* First statement of Info, Debug, Warn and Error: StdOutLogger.SetPrefix.
LevelCall(t, level, msg, labels) ==
    /\ pc[t] = "idle"
    /\ ncalls < MaxCalls
    /\ ncalls' = ncalls + 1
    /\ overlap' = (overlap \/ \E u \in Callers \ {t} : pc[u] # "idle")
    /\ StdOutLogger' = SetPrefix(StdOutLogger, LevelPrefix(level))
    /\ cur' = [cur EXCEPT ![t] = [NoCall EXCEPT !.id = ncalls + 1, !.caller = t,
                                      !.method = level, !.msg = msg, !.labels = labels]]
    /\ pc' = [pc EXCEPT ![t] = "println"]
    /\ UNCHANGED <<lcVars, FileLogger, stdout, fsVars, netVars, hist, files0>>

Info(t) == \E a \in ArgsOf("INFO") : LevelCall(t, "INFO", a.msg, a.labels)

Debug(t) == \E a \in ArgsOf("DEBUG") : LevelCall(t, "DEBUG", a.msg, a.labels)

Warn(t) == \E a \in ArgsOf("WARN") : LevelCall(t, "WARN", a.msg, a.labels)

Error(t) == \E a \in ArgsOf("ERROR") : LevelCall(t, "ERROR", a.msg, a.labels)

\* Mutant: Trace echoes to standard output like the other levels.
TraceCall_echo(t, msg, labels) ==
    /\ pc[t] = "idle"
    /\ ncalls < MaxCalls
    /\ ncalls' = ncalls + 1
    /\ overlap' = (overlap \/ \E u \in Callers \ {t} : pc[u] # "idle")
    /\ stdout' = Println(stdout, SetPrefix(StdOutLogger, LevelPrefix("TRACE")), msg, ncalls + 1)
    /\ hist' = Append(hist, [NoCall EXCEPT !.id = ncalls + 1, !.caller = t,
                                      !.method = "TRACE", !.msg = msg, !.labels = labels])
    /\ UNCHANGED <<lcVars, StdOutLogger, FileLogger, fsVars, netVars, pc, cur, files0>>

\* Trace has an empty body.
TraceCall(t, msg, labels) ==
    /\ pc[t] = "idle"
    /\ ncalls < MaxCalls
    /\ ncalls' = ncalls + 1
    /\ overlap' = (overlap \/ \E u \in Callers \ {t} : pc[u] # "idle")
    /\ hist' = Append(hist, [NoCall EXCEPT !.id = ncalls + 1, !.caller = t,
                                      !.method = "TRACE", !.msg = msg, !.labels = labels])
    /\ UNCHANGED <<lcVars, StdOutLogger, FileLogger, stdout, fsVars, netVars, pc, cur, files0>>

Trace(t) == \E a \in ArgsOf("TRACE") : TraceCall(t, a.msg, a.labels)

\* Second statement of Info, Debug, Warn and Error: StdOutLogger.Println(msg).
StdOutPrintln(t) ==
    /\ pc[t] = "println"
    /\ stdout' = Println(stdout, StdOutLogger, cur[t].msg, cur[t].id)
    /\ pc' = [pc EXCEPT ![t] = "log"]
    /\ UNCHANGED <<lcVars, StdOutLogger, FileLogger, fsVars, netVars, cur, hist, ncalls,
                   overlap, files0>>

\* verifyLogDirectory: os.Stat, and os.MkdirAll when the directory is missing.
\* MkdirAll's error is dropped.
verifyLogDirectory(t, path) ==
    LET dir == LogDir(path) IN
    IF Len(dir) > 0 /\ dir \notin dirs
    THEN /\ stdout' = Diag(stdout, "Creating directory", cur[t].id)
         /\ dirs' = IF perm = "rw" THEN dirs \cup Ancestors(dir) ELSE dirs
         /\ cur' = [cur EXCEPT ![t].mkdirFailed = (perm # "rw")]
    ELSE /\ UNCHANGED <<stdout, dirs, cur>>

\* Mutant: a failed MkdirAll is returned to the caller.
saveToLogFile_mkdirerr(t) ==
    IF LogTarget = <<>>
    THEN /\ Return(t, cur[t], "nil")
         /\ UNCHANGED <<stdout, fsVars, netVars>>
    ELSE IF Len(LogDir(LogTarget)) > 0 /\ LogDir(LogTarget) \notin dirs /\ perm # "rw"
    THEN /\ stdout' = Diag(stdout, "Creating directory", cur[t].id)
         /\ Return(t, [cur[t] EXCEPT !.mkdirFailed = TRUE], "mkdir_err")
         /\ UNCHANGED <<fsVars, netVars>>
    ELSE /\ verifyLogDirectory(t, LogTarget)
         /\ pc' = [pc EXCEPT ![t] = "open"]
         /\ UNCHANGED <<files, perm, handles, netVars, hist>>

\* saveToLogFile up to the call of os.OpenFile.
saveToLogFile(t) ==
    IF LogTarget = <<>>
    THEN /\ Return(t, cur[t], "nil")
         /\ UNCHANGED <<stdout, fsVars, netVars>>
    ELSE /\ verifyLogDirectory(t, LogTarget)
         /\ pc' = [pc EXCEPT ![t] = "open"]
         /\ UNCHANGED <<files, perm, handles, netVars, hist>>

\* Mutant: the senders run one after the other, in launch order.
makeRequest_fifo(i) ==
    /\ i \in DOMAIN senders
    /\ i = 1
    /\ senders' = Tail(senders)
    /\ \E ok \in (IF SchemeSupported(senders[i].req.url) THEN BOOLEAN ELSE {FALSE}) :
          /\ sent' = Append(sent, [call |-> senders[i].call, req |-> senders[i].req,
                                   ok |-> ok])
          /\ stdout' = IF ok THEN stdout
                       ELSE Diag(stdout, "transport error", senders[i].call)
    /\ UNCHANGED <<lcVars, StdOutLogger, FileLogger, fsVars, pc, cur, hist, ncalls,
                   overlap, files0>>

RemoveAt(seq, i) == SubSeq(seq, 1, i - 1) \o SubSeq(seq, i + 1, Len(seq))

\* client.Do in the i-th pending detached goroutine.  The collector gets the
\* request when the transport succeeds; a failure is printed.
makeRequest(i) ==
    /\ i \in DOMAIN senders
    /\ senders' = RemoveAt(senders, i)
    /\ \E ok \in (IF SchemeSupported(senders[i].req.url) THEN BOOLEAN ELSE {FALSE}) :
          /\ sent' = Append(sent, [call |-> senders[i].call, req |-> senders[i].req,
                                   ok |-> ok])
          /\ stdout' = IF ok THEN stdout
                       ELSE Diag(stdout, "transport error", senders[i].call)
    /\ UNCHANGED <<lcVars, StdOutLogger, FileLogger, fsVars, pc, cur, hist, ncalls,
                   overlap, files0>>

\* Mutant: the empty-target check is missing.
sendLog_nocheck(t, logEntry) ==
    /\ senders' = Append(senders,
          [call |-> cur[t].id,
           req |-> [method |-> "POST", url |-> LogTarget, body |-> Marshal(logEntry).body,
                    contentType |-> "application/json"]])
    /\ Return(t, [cur[t] EXCEPT !.launched = TRUE], "nil")
    /\ UNCHANGED <<stdout, sent>>

\* Mutant: the request is made inline and its error returned.
sendLog_wait(t, logEntry) ==
    IF LogTarget = <<>>
    THEN /\ Return(t, cur[t], "nil")
         /\ UNCHANGED <<stdout, netVars>>
    ELSE IF ~NewRequestOK(LogTarget)
    THEN /\ stdout' = Diag(stdout, "request error", cur[t].id)
         /\ Return(t, cur[t], "request_err")
         /\ UNCHANGED netVars
    ELSE \E ok \in (IF SchemeSupported(LogTarget) THEN BOOLEAN ELSE {FALSE}) :
         /\ sent' = Append(sent,
               [call |-> cur[t].id, ok |-> ok,
                req |-> [method |-> "POST", url |-> LogTarget,
                         body |-> Marshal(logEntry).body,
                         contentType |-> "application/json"]])
         /\ stdout' = IF ok THEN stdout ELSE Diag(stdout, "transport error", cur[t].id)
         /\ Return(t, [cur[t] EXCEPT !.launched = TRUE],
                   IF ok THEN "nil" ELSE "transport_err")
         /\ UNCHANGED senders

\* sendLog: marshal, build the request, start the goroutine, return.
sendLog(t, logEntry) ==
    IF LogTarget = <<>>
    THEN /\ Return(t, cur[t], "nil")
         /\ UNCHANGED <<stdout, netVars>>
    ELSE LET m == Marshal(logEntry) IN
         IF ~m.ok
         THEN /\ stdout' = Diag(stdout, "marshal error", cur[t].id)
              /\ Return(t, cur[t], "marshal_err")
              /\ UNCHANGED netVars
         ELSE IF ~NewRequestOK(LogTarget)
         THEN /\ stdout' = Diag(stdout, "request error", cur[t].id)
              /\ Return(t, cur[t], "request_err")
              /\ UNCHANGED netVars
         ELSE /\ senders' = Append(senders,
                    [call |-> cur[t].id,
                     req |-> [method |-> "POST", url |-> LogTarget, body |-> m.body,
                              contentType |-> "application/json"]])
              /\ Return(t, [cur[t] EXCEPT !.launched = TRUE], "nil")
              /\ UNCHANGED <<stdout, sent>>

\* log: the dispatch on RemoteEnabled.
log(t) ==
    /\ pc[t] = "log"
    /\ IF ~RemoteEnabled
       THEN saveToLogFile(t)
       ELSE /\ sendLog(t, buildLogEntry(cur[t].method, cur[t].msg, cur[t].labels))
            /\ UNCHANGED fsVars
    /\ UNCHANGED <<lcVars, StdOutLogger, FileLogger, ncalls, overlap, files0>>

\* os.OpenFile and the error check after it.  The handle of a call carries
\* the call's id.  On failure the deferred Close acts on a nil file.
OpenFile(t) ==
    /\ pc[t] = "open"
    /\ IF OpenOK(LogTarget)
       THEN /\ files' = [files EXCEPT ![LogTarget] = OpenedFile(@)]
            /\ handles' = handles \cup {cur[t].id}
            /\ cur' = [cur EXCEPT ![t].opened = TRUE]
            /\ pc' = [pc EXCEPT ![t] = "setoutput"]
            /\ UNCHANGED <<stdout, hist>>
       ELSE /\ stdout' = Diag(stdout, "Error opening log file", cur[t].id)
            /\ Return(t, [cur[t] EXCEPT !.openFailed = TRUE], "open_err")
            /\ UNCHANGED <<files, handles>>
    /\ UNCHANGED <<lcVars, StdOutLogger, FileLogger, dirs, perm, netVars, ncalls, overlap,
                   files0>>

\* lc.FileLogger.SetOutput(file)
FileSetOutput(t) ==
    /\ pc[t] = "setoutput"
    /\ FileLogger' = SetOutput(FileLogger, cur[t].id)
    /\ pc' = [pc EXCEPT ![t] = "setprefix"]
    /\ UNCHANGED <<lcVars, StdOutLogger, stdout, fsVars, netVars, cur, hist, ncalls,
                   overlap, files0>>

\* lc.FileLogger.SetPrefix(prefix + ": ")
FileSetPrefix(t) ==
    /\ pc[t] = "setprefix"
    /\ FileLogger' = SetPrefix(FileLogger, LevelPrefix(cur[t].method))
    /\ pc' = [pc EXCEPT ![t] = "fileprintln"]
    /\ UNCHANGED <<lcVars, StdOutLogger, stdout, fsVars, netVars, cur, hist, ncalls,
                   overlap, files0>>

\* Mutant: every call writes through a logger of its own.
FileWriter_own(t) ==
    [out |-> cur[t].id, prefix |-> LevelPrefix(cur[t].method), flags |-> LogFlags]

\* What lc.FileLogger.Println(message) writes with: the shared logger.
FileWriter(t) == FileLogger

\* lc.FileLogger.Println(message), return nil, and the deferred file.Close().
\* The write goes to whatever handle the shared logger holds; a write to a
\* closed handle fails and Println drops the error.
FilePrintln(t) ==
    /\ pc[t] = "fileprintln"
    /\ LET w == FileWriter(t) IN
       files' = IF w.out \in handles
                THEN [files EXCEPT ![LogTarget].lines = Println(@, w, cur[t].msg, cur[t].id)]
                ELSE files
    /\ handles' = handles \ {cur[t].id}
    /\ Return(t, cur[t], "nil")
    /\ UNCHANGED <<lcVars, StdOutLogger, FileLogger, stdout, dirs, perm, netVars, ncalls,
                   overlap, files0>>

Next ==
    \/ \E t \in Callers : Info(t)
    \/ \E t \in Callers : Debug(t)
    \/ \E t \in Callers : Warn(t)
    \/ \E t \in Callers : Error(t)
    \/ \E t \in Callers : Trace(t)
    \/ \E t \in Callers : StdOutPrintln(t)
    \/ \E t \in Callers : log(t)
    \/ \E t \in Callers : OpenFile(t)
    \/ \E t \in Callers : FileSetOutput(t)
    \/ \E t \in Callers : FileSetPrefix(t)
    \/ \E t \in Callers : FilePrintln(t)
    \/ \E i \in DOMAIN senders : makeRequest(i)

Spec == Init /\ [][Next]_vars

\* ------------------------------------------------------- history helpers

HistSet == {hist[i] : i \in DOMAIN hist}
InFlight == {cur[t] : t \in Callers} \ {NoCall}
Leveled(S) == {c \in S : c.method \in Levels}

\* Positions of the lines a logger wrote for call id.
LogLines(lines, id) == {i \in DOMAIN lines : lines[i].kind = "log" /\ lines[i].call = id}

\* Requests started for call id: still pending, or already tried.
PendingOf(id) == {i \in DOMAIN senders : senders[i].call = id}
TriedOf(id) == {i \in DOMAIN sent : sent[i].call = id}
ReceivedOf(id) == {i \in TriedOf(id) : sent[i].ok}

FileLine(c) == [kind |-> "log", prefix |-> LevelPrefix(c.method), msg |-> c.msg, call |-> c.id]

\* The lines of the completed calls that returned nil, in call order.
RECURSIVE LinesOfCalls(_, _)
LinesOfCalls(S, n) ==
    IF n = 0 THEN <<>>
    ELSE LET rest == LinesOfCalls(S, n - 1)
             here == {c \in S : c.id = n /\ c.method \in Levels /\ c.ret = "nil"}
         IN IF here = {} THEN rest ELSE Append(rest, FileLine(CHOOSE c \in here : TRUE))

\* Calls that have executed StdOutLogger.Println.
PastPrintln ==
    Leveled(HistSet) \cup {cur[t] : t \in {u \in Callers : pc[u] \notin {"idle", "println"}}}

\* -------------------------------------------------------------------- C1
\* C1: every Info, Debug, Warn or Error call, overlapping calls included,
\* puts exactly one logger line on standard output, and that line carries
\* the level prefix and the message of that same call.
C1_OneStdoutLinePerCall ==
    \A c \in PastPrintln :
        /\ Cardinality(LogLines(stdout, c.id)) = 1
        /\ \A i \in LogLines(stdout, c.id) :
              /\ stdout[i].prefix = LevelPrefix(c.method)
              /\ stdout[i].msg = c.msg

\* -------------------------------------------------------------------- C2
\* C2: a file open is attempted only in local mode with a non-empty target,
\* a request is started only in remote mode with a non-empty target, no call
\* uses both sinks, and with an empty target every call returns nil, creates
\* no file and starts no request.
C2_SinkSelection ==
    /\ \A c \in HistSet \cup InFlight :
          /\ (c.opened \/ c.openFailed) => ~RemoteEnabled /\ LogTarget # <<>>
          /\ (PendingOf(c.id) \cup TriedOf(c.id) # {}) => RemoteEnabled /\ LogTarget # <<>>
          /\ ~((c.opened \/ c.openFailed) /\ (PendingOf(c.id) \cup TriedOf(c.id) # {}))
    /\ RemoteEnabled => files = files0 /\ dirs = {} /\ handles = {}
    /\ LogTarget = <<>> =>
          /\ files = files0 /\ handles = {}
          /\ senders = <<>> /\ sent = <<>>
          /\ \A c \in HistSet : c.ret = "nil"

C2_Witness ==
    /\ RemoteEnabled
    /\ \E c \in Leveled(HistSet) : PendingOf(c.id) # {} /\ ~c.opened

\* -------------------------------------------------------------------- C3
\* C3 as stated: in remote mode with a non-empty target every completed
\* Info, Debug, Warn or Error call has started exactly one POST.
C3_Original ==
    (RemoteEnabled /\ LogTarget # <<>>) =>
        \A c \in Leveled(HistSet) :
            Cardinality(PendingOf(c.id)) + Cardinality(TriedOf(c.id)) = 1

\* C3 amended: in remote mode with a non-empty target, a completed call has
\* started exactly one POST to LogTarget when the request could be built, and
\* none (returning the construction error) when it could not; the request
\* carries the call's level, message, labels in order and the client's
\* OwningServiceName; it is tried at most once, and the collector receives
\* exactly one request for a call whose transport succeeded.
C3_OnePostPerCall ==
    (RemoteEnabled /\ LogTarget # <<>>) =>
        /\ \A c \in Leveled(HistSet) :
              IF NewRequestOK(LogTarget)
              THEN /\ Cardinality(PendingOf(c.id)) + Cardinality(TriedOf(c.id)) = 1
                   /\ Cardinality(ReceivedOf(c.id)) =
                         (IF \E i \in TriedOf(c.id) : sent[i].ok THEN 1 ELSE 0)
                   /\ \A r \in {senders[i].req : i \in PendingOf(c.id)}
                               \cup {sent[i].req : i \in TriedOf(c.id)} :
                         /\ r.method = "POST"
                         /\ r.url = LogTarget
                         /\ r.body = [level |-> c.method, message |-> c.msg,
                                      labels |-> c.labels,
                                      originService |-> OwningServiceName]
              ELSE /\ PendingOf(c.id) \cup TriedOf(c.id) = {}
                   /\ c.ret = "request_err"
        /\ \A c \in InFlight \cup (HistSet \ Leveled(HistSet)) :
              PendingOf(c.id) \cup TriedOf(c.id) = {}

C3_Witness ==
    /\ RemoteEnabled
    /\ \E c \in Leveled(HistSet) :
          /\ c.method = "WARN"
          /\ Cardinality(ReceivedOf(c.id)) = 1
          /\ \A i \in ReceivedOf(c.id) : sent[i].req.body.labels = <<"tag1", "tag2">>

\* -------------------------------------------------------------------- C4
\* C4: in local mode, as long as no two calls overlapped, the log file is its
\* content at construction followed by one line per call that returned nil,
\* in call order, each with that call's level prefix and message.
C4_AppendOnly ==
    (~RemoteEnabled /\ LogTarget # <<>> /\ ~overlap) =>
        files[LogTarget].lines = files0[LogTarget].lines \o LinesOfCalls(HistSet, ncalls)

C4_Witness ==
    /\ ~RemoteEnabled /\ LogTarget # <<>> /\ ~overlap
    /\ files0[LogTarget].lines = <<OldLine>>
    /\ Len(files[LogTarget].lines) = 3
    /\ \A c \in HistSet : c.ret = "nil" /\ c.method \in Levels

\* -------------------------------------------------------------------- C5
\* C5: in local mode with a non-empty target a call returns an error exactly
\* when os.OpenFile fails; the failing step appends nothing and leaves the
\* file writer as it was, and the returned error is always the open error,
\* also when the directory could not be created.
C5_ReturnsInv ==
    (~RemoteEnabled /\ LogTarget # <<>>) =>
        \A c \in Leveled(HistSet) :
            /\ c.ret \in {"nil", "open_err"}
            /\ c.ret # "nil" <=> c.openFailed
            /\ c.ret # "nil" => LogLines(files[LogTarget].lines, c.id) = {}

C5_OpenStep ==
    \A t \in Callers :
        (pc[t] = "open" /\ pc'[t] # "open") =>
            IF OpenOK(LogTarget)
            THEN pc'[t] = "setoutput" /\ hist' = hist
            ELSE /\ pc'[t] = "idle"
                 /\ hist' = Append(hist, [cur[t] EXCEPT !.ret = "open_err",
                                                         !.openFailed = TRUE])
                 /\ files' = files
                 /\ FileLogger' = FileLogger

C6_ReturnInv ==
    RemoteEnabled =>
        \A c \in Leveled(HistSet) :
            c.ret = IF LogTarget = <<>> THEN "nil"
                    ELSE IF ~Marshal(buildLogEntry(c.method, c.msg, c.labels)).ok
                    THEN "marshal_err"
                    ELSE IF ~NewRequestOK(LogTarget) THEN "request_err"
                    ELSE "nil"

C6_NotBlocked ==
    \A t \in Callers :
        /\ (pc[t] = "idle" /\ ncalls < MaxCalls) => ENABLED Info(t)
        /\ pc[t] = "log" => ENABLED log(t)

C6_SenderStep ==
    sent' # sent => hist' = hist /\ pc' = pc /\ cur' = cur

C6_ReturnIgnoresSend == [](C6_ReturnInv /\ C6_NotBlocked) /\ [][C6_SenderStep]_vars

C6_Witness ==
    /\ RemoteEnabled
    /\ \E c, d \in Leveled(HistSet) :
          /\ c.id < d.id /\ c.caller = d.caller
          /\ c.ret = "nil" /\ d.ret = "nil"
          /\ \E i \in TriedOf(c.id) : ~sent[i].ok

\* -------------------------------------------------------------------- C7
\* C7: a Trace call writes nothing to standard output, touches no file or
\* directory, starts no request and leaves both writers as they were, in
\* every configuration.
C7_TraceStep ==
    (Len(hist') = Len(hist) + 1 /\ hist'[Len(hist')].method = "TRACE") =>
        UNCHANGED <<stdout, StdOutLogger, FileLogger, dirs, files, perm, handles,
                    senders, sent, lcVars>>

C8_Original ==
    [][UNCHANGED <<OwningServiceName, RemoteEnabled, LogTarget, StdOutLogger>>]_vars

\* C8 amended: no call changes OwningServiceName, RemoteEnabled, LogTarget or
\* the standard-output writer's destination and flags; the standard-output
\* writer's prefix does change, and only in the first statement of an Info,
\* Debug, Warn or Error call, which sets it to that call's level prefix.
C8_Step ==
    /\ UNCHANGED <<OwningServiceName, RemoteEnabled, LogTarget>>
    /\ StdOutLogger'.out = StdOutLogger.out
    /\ StdOutLogger'.flags = StdOutLogger.flags
    /\ StdOutLogger'.prefix # StdOutLogger.prefix =>
          \E t \in Callers :
              /\ pc[t] = "idle" /\ pc'[t] = "println"
              /\ cur'[t].method \in Levels
              /\ StdOutLogger'.prefix = LevelPrefix(cur'[t].method)

C8_FrameExceptPrefix == [][C8_Step]_vars

C8_Witness ==
    /\ StdOutLogger.prefix = <<"WARN", ": ">>
    /\ \E c \in Leveled(HistSet) : c.method = "WARN"

\* -------------------------------------------------------------------- C9
\* C9: the file writer is shared and unprotected.  The write step of a call
\* uses whatever output and prefix the shared writer holds at that moment,
\* not the call's own; a completed call's line is missing or carries another
\* level's prefix only if calls overlapped; and such an outcome is reachable.
Misfiled(c) ==
    \/ LogLines(files[LogTarget].lines, c.id) = {}
    \/ \E i \in LogLines(files[LogTarget].lines, c.id) :
          files[LogTarget].lines[i].prefix # LevelPrefix(c.method)

C9_OnlyOverlap ==
    (~RemoteEnabled /\ LogTarget # <<>>) =>
        ((\E c \in Leveled(HistSet) : c.ret = "nil" /\ Misfiled(c)) => overlap)

C9_WriteStep ==
    \A t \in Callers :
        (pc[t] = "fileprintln" /\ pc'[t] = "idle") =>
            files' = IF FileLogger.out \in handles
                     THEN [files EXCEPT ![LogTarget].lines =
                              Append(@, [kind |-> "log", prefix |-> FileLogger.prefix,
                                         msg |-> cur[t].msg, call |-> cur[t].id])]
                     ELSE files

C9_SharedWriter == [](C9_OnlyOverlap) /\ [][C9_WriteStep]_vars

\* Two overlapping calls of different levels, both returned nil: the line of
\* one carries the other's prefix, and the message of the other is not in
\* the file.
C9_Witness ==
    /\ ~RemoteEnabled /\ LogTarget # <<>>
    /\ \E c, d \in Leveled(HistSet) :
          /\ c.id # d.id /\ c.method # d.method
          /\ c.ret = "nil" /\ d.ret = "nil"
          /\ \E i \in LogLines(files[LogTarget].lines, c.id) :
                files[LogTarget].lines[i].prefix = LevelPrefix(d.method)
          /\ LogLines(files[LogTarget].lines, d.id) = {}

\* ------------------------------------------------------------------- C10
\* C10: nothing orders the detached senders: every pending sender can take
\* its step next, whatever the other senders and the callers are doing, and
\* callers never wait for a sender; so the collector can receive the entry
\* of a later call of one goroutine before the entry of its earlier call.
C10_Unordered ==
    /\ \A i \in DOMAIN senders : ENABLED makeRequest(i)
    /\ \A t \in Callers : (pc[t] = "idle" /\ ncalls < MaxCalls) => ENABLED Warn(t)

C10_Witness ==
    \E i, j \in DOMAIN sent :
        /\ i < j /\ sent[i].ok /\ sent[j].ok
        /\ sent[i].call > sent[j].call
        /\ \E a, b \in HistSet :
              a.id = sent[j].call /\ b.id = sent[i].call /\ a.caller = b.caller

====
